---- MODULE Spec2Model ----
(***************************************************************************)
(* Model of find_duplicates.py: content-hash grouping, perceptual-hash     *)
(* clustering, the two review front ends (interactive_cli_review and       *)
(* DuplicateReviewApp) and the disposition executor (move_to_duplicates,   *)
(* delete_file).                                                           *)
(***************************************************************************)
EXTENDS Integers, Sequences, FiniteSets, TLC

\* Bound on the number of user events (button clicks, input lines) of a pass.
MaxEvents == 4
\* Bound on the number of tokens typed after "k" in the line-mode review.
MaxParts == 2

VARIABLES
    files,   \* list[FileInfo] after scan_files and hash_files
    groups,  \* the merged group list handed to the review
    mode,    \* "cli" (interactive_cli_review) or "gui" (DuplicateReviewApp)
    sess,    \* the review pass: filesystem, index, stats, widgets
    twin,    \* a second pass over the same groups with dry_run set (SpecPair)
    nev,     \* number of user events handled so far
    last     \* the event handled by the last step

vars == <<files, groups, mode, sess, twin, nev, last>>

None == "None"
\* an unset perceptual_hash (hashes are bit vectors here; an empty one is falsy too)
NoPHash == <<>>

----------------------------------------------------------------------------
(* FileInfo and DuplicateGroup *)

FileInfo(p, ch, ph) == [path |-> p, content_hash |-> ch, perceptual_hash |-> ph]

DuplicateGroup(t, fs, sim) == [group_type |-> t, files |-> fs, similarity |-> sim]

\* file_info.path.name, as a string of characters
Name(p) ==
    CASE p = 1 -> <<"a">>
      [] p = 2 -> <<"b", "]">>
      [] p = 3 -> <<"[", "c">>
      [] OTHER -> <<"d">>

----------------------------------------------------------------------------
(* find_exact_duplicates *)

RECURSIVE HashGroupsPrepend(_, _)
\* hash_groups with each record put in front of its entry's list
HashGroupsPrepend(fl, k) ==
    IF k = 0 THEN <<>>
    ELSE LET d == HashGroupsPrepend(fl, k - 1)
             f == fl[k]
         IN  IF f.content_hash = None THEN d
             ELSE IF \E e \in 1..Len(d) : d[e].key = f.content_hash
             THEN [e \in 1..Len(d) |->
                     IF d[e].key = f.content_hash
                     THEN [d[e] EXCEPT !.files = <<f>> \o @]
                     ELSE d[e]]
             ELSE Append(d, [key |-> f.content_hash, files |-> <<f>>])

RECURSIVE HashGroups(_, _)
\* hash_groups (an insertion-ordered dict, as a sequence of entries) after
\* the first k files of the loop
HashGroups(fl, k) ==
    IF k = 0 THEN <<>>
    ELSE LET d == HashGroups(fl, k - 1)
             f == fl[k]
         IN  IF f.content_hash = None THEN d
             ELSE IF \E e \in 1..Len(d) : d[e].key = f.content_hash
             THEN [e \in 1..Len(d) |->
                     IF d[e].key = f.content_hash
                     THEN [d[e] EXCEPT !.files = Append(@, f)]
                     ELSE d[e]]
             ELSE Append(d, [key |-> f.content_hash, files |-> <<f>>])

\* find_exact_duplicates without the test len(group_files) > 1
FindExactKeepsSingles(fl) ==
    LET d == HashGroups(fl, Len(fl))
    IN  [i \in 1..Len(d) |-> DuplicateGroup("exact", d[i].files, None)]

FindExactDuplicates(fl) ==
    LET d == HashGroups(fl, Len(fl))
        big == SelectSeq(d, LAMBDA e : Len(e.files) > 1)
    IN  [i \in 1..Len(big) |-> DuplicateGroup("exact", big[i].files, None)]

----------------------------------------------------------------------------
(* find_similar_images *)

\* hash1 - hash2: the number of differing bits
HashDistance(h1, h2) == Cardinality({b \in 1..Len(h1) : h1[b] # h2[b]})

RECURSIVE SimilarInnerLoose(_, _, _, _, _)
\* the inner loop accepting one bit more than the threshold
SimilarInnerLoose(imgs, i, j, threshold, acc) ==
    IF j > Len(imgs) THEN acc
    ELSE IF imgs[j].path \in acc.grouped
    THEN SimilarInnerLoose(imgs, i, j + 1, threshold, acc)
    ELSE IF HashDistance(imgs[i].perceptual_hash, imgs[j].perceptual_hash) <= threshold + 1
    THEN SimilarInnerLoose(imgs, i, j + 1, threshold,
                      [similar |-> Append(acc.similar, imgs[j]),
                       grouped |-> acc.grouped \cup {imgs[j].path}])
    ELSE SimilarInnerLoose(imgs, i, j + 1, threshold, acc)

RECURSIVE SimilarInnerStrict(_, _, _, _, _)
\* the inner loop with distance < threshold
SimilarInnerStrict(imgs, i, j, threshold, acc) ==
    IF j > Len(imgs) THEN acc
    ELSE IF imgs[j].path \in acc.grouped
    THEN SimilarInnerStrict(imgs, i, j + 1, threshold, acc)
    ELSE IF HashDistance(imgs[i].perceptual_hash, imgs[j].perceptual_hash) < threshold
    THEN SimilarInnerStrict(imgs, i, j + 1, threshold,
                      [similar |-> Append(acc.similar, imgs[j]),
                       grouped |-> acc.grouped \cup {imgs[j].path}])
    ELSE SimilarInnerStrict(imgs, i, j + 1, threshold, acc)

RECURSIVE SimilarInnerChained(_, _, _, _, _)
\* the inner loop comparing with the member added last, not with file1
SimilarInnerChained(imgs, i, j, threshold, acc) ==
    IF j > Len(imgs) THEN acc
    ELSE IF imgs[j].path \in acc.grouped
    THEN SimilarInnerChained(imgs, i, j + 1, threshold, acc)
    ELSE IF HashDistance(acc.similar[Len(acc.similar)].perceptual_hash,
                         imgs[j].perceptual_hash) <= threshold
    THEN SimilarInnerChained(imgs, i, j + 1, threshold,
                      [similar |-> Append(acc.similar, imgs[j]),
                       grouped |-> acc.grouped \cup {imgs[j].path}])
    ELSE SimilarInnerChained(imgs, i, j + 1, threshold, acc)

RECURSIVE SimilarInner(_, _, _, _, _)
\* the loop over image_files[i + 1:]; acc = [similar, grouped]
SimilarInner(imgs, i, j, threshold, acc) ==
    IF j > Len(imgs) THEN acc
    ELSE IF imgs[j].path \in acc.grouped
    THEN SimilarInner(imgs, i, j + 1, threshold, acc)
    ELSE IF HashDistance(imgs[i].perceptual_hash, imgs[j].perceptual_hash) <= threshold
    THEN SimilarInner(imgs, i, j + 1, threshold,
                      [similar |-> Append(acc.similar, imgs[j]),
                       grouped |-> acc.grouped \cup {imgs[j].path}])
    ELSE SimilarInner(imgs, i, j + 1, threshold, acc)

RECURSIVE SimilarOuterReseeds(_, _, _, _)
\* the outer loop without the test file1.path in grouped
SimilarOuterReseeds(imgs, i, threshold, st) ==
    IF i > Len(imgs) THEN st.groups
    ELSE LET r == SimilarInner(imgs, i, i + 1, threshold,
                               [similar |-> <<imgs[i]>>, grouped |-> st.grouped])
         IN  IF Len(r.similar) > 1
             THEN SimilarOuterReseeds(imgs, i + 1, threshold,
                     [grouped |-> r.grouped \cup {imgs[i].path},
                      groups |-> Append(st.groups,
                                   DuplicateGroup("similar", r.similar, threshold))])
             ELSE SimilarOuterReseeds(imgs, i + 1, threshold,
                     [grouped |-> r.grouped, groups |-> st.groups])

RECURSIVE SimilarOuter(_, _, _, _)
\* the loop over image_files; st = [grouped, groups]
SimilarOuter(imgs, i, threshold, st) ==
    IF i > Len(imgs) THEN st.groups
    ELSE IF imgs[i].path \in st.grouped
    THEN SimilarOuter(imgs, i + 1, threshold, st)
    ELSE LET r == SimilarInner(imgs, i, i + 1, threshold,
                               [similar |-> <<imgs[i]>>, grouped |-> st.grouped])
         IN  IF Len(r.similar) > 1
             THEN SimilarOuter(imgs, i + 1, threshold,
                     [grouped |-> r.grouped \cup {imgs[i].path},
                      groups |-> Append(st.groups,
                                   DuplicateGroup("similar", r.similar, threshold))])
             ELSE SimilarOuter(imgs, i + 1, threshold,
                     [grouped |-> r.grouped, groups |-> st.groups])

\* find_similar_images without the filter on perceptual_hash
FindSimilarUnfiltered(fl, threshold) ==
    IF fl = <<>> THEN <<>>
    ELSE SimilarOuter(fl, 1, threshold, [grouped |-> {}, groups |-> <<>>])

FindSimilarImages(fl, threshold) ==
    LET image_files == SelectSeq(fl, LAMBDA f : f.perceptual_hash # NoPHash)
    IN  IF image_files = <<>> THEN <<>>
        ELSE SimilarOuter(image_files, 1, threshold, [grouped |-> {}, groups |-> <<>>])

\* main: groups = exact groups, extended by the similar groups
MergedGroups(fl, threshold) ==
    FindExactDuplicates(fl) \o FindSimilarImages(fl, threshold)

----------------------------------------------------------------------------
(* The filesystem as the review sees it, and the disposition executor.     *)
(* w.present: files still at their original path; w.quarantine: files now  *)
(* under _duplicates; w.dup_dir: whether _duplicates exists; w.requests:   *)
(* every call of move_to_duplicates / delete_file, in order.               *)

World(fl) ==
    [present |-> {fl[k].path : k \in 1..Len(fl)},
     quarantine |-> {},
     dup_dir |-> FALSE,
     requests |-> <<>>]

\* What the operating system answers to one live call.
MoveOutcomes == {"ok", "mkdir_err", "io_err"}
DeleteOutcomes == {"ok", "io_err"}

\* move_to_duplicates without its dry_run branch
MoveToDuplicatesNoDryRun(w, file_path, dry_run, outcome) ==
    LET w1 == [w EXCEPT !.requests = Append(@, <<"move", file_path>>)]
    IN  IF outcome = "ok" /\ file_path \in w.present
        THEN [w |-> [w1 EXCEPT !.dup_dir = TRUE,
                               !.present = @ \ {file_path},
                               !.quarantine = @ \cup {file_path}],
              ok |-> TRUE]
        ELSE [w |-> w1, ok |-> FALSE]

MoveToDuplicates(w, file_path, dry_run, outcome) ==
    LET w1 == [w EXCEPT !.requests = Append(@, <<"move", file_path>>)]
    IN  IF dry_run THEN [w |-> w1, ok |-> TRUE]
        ELSE IF outcome = "mkdir_err" THEN [w |-> w1, ok |-> FALSE]
        ELSE IF outcome = "io_err" \/ file_path \notin w.present
        THEN [w |-> [w1 EXCEPT !.dup_dir = TRUE], ok |-> FALSE]
        ELSE [w |-> [w1 EXCEPT !.dup_dir = TRUE,
                               !.present = @ \ {file_path},
                               !.quarantine = @ \cup {file_path}],
              ok |-> TRUE]

\* delete_file answering True after a failed unlink
DeleteFileHidesError(w, file_path, dry_run, outcome) ==
    LET w1 == [w EXCEPT !.requests = Append(@, <<"delete", file_path>>)]
    IN  IF dry_run \/ outcome # "ok" \/ file_path \notin w.present
        THEN [w |-> w1, ok |-> TRUE]
        ELSE [w |-> [w1 EXCEPT !.present = @ \ {file_path}], ok |-> TRUE]

DeleteFile(w, file_path, dry_run, outcome) ==
    LET w1 == [w EXCEPT !.requests = Append(@, <<"delete", file_path>>)]
    IN  IF dry_run THEN [w |-> w1, ok |-> TRUE]
        ELSE IF outcome # "ok" \/ file_path \notin w.present
        THEN [w |-> w1, ok |-> FALSE]
        ELSE [w |-> [w1 EXCEPT !.present = @ \ {file_path}], ok |-> TRUE]

RECURSIVE DisposeOthers(_, _, _, _, _, _, _)
\* for j, file_info in enumerate(group.files, 1): if j not in keep_indices: ...
\* action "m" moves, "d" deletes, anything else does nothing; count is the
\* number of calls that returned True.
DisposeOthers(action, gfiles, j, keep_indices, w, dry_run, out) ==
    IF j > Len(gfiles) THEN [w |-> w, count |-> 0]
    ELSE IF j \in keep_indices \/ action \notin {"m", "d"}
    THEN DisposeOthers(action, gfiles, j + 1, keep_indices, w, dry_run, out)
    ELSE LET p == gfiles[j].path
             r == IF action = "m"
                  THEN MoveToDuplicates(w, p, dry_run, out[p])
                  ELSE DeleteFile(w, p, dry_run, out[p])
             rest == DisposeOthers(action, gfiles, j + 1, keep_indices,
                                   r.w, dry_run, out)
         IN  [w |-> rest.w, count |-> rest.count + (IF r.ok THEN 1 ELSE 0)]

----------------------------------------------------------------------------
(* DuplicateReviewApp: widgets and handlers.  A session s is the record    *)
(* [dry_run, w, current_index, stats, status_text, checked, returned];     *)
(* checked is file_checkboxes.value.                                       *)

ZeroStats == [reviewed |-> 0, skipped |-> 0, moved |-> 0, deleted |-> 0]

HasCurrentGroup(s) == 0 <= s.current_index /\ s.current_index < Len(groups)

\* _get_current_group, where it returns a group
GetCurrentGroup(s) == groups[s.current_index + 1]

\* the label f"[{i}] {f.path.name} ({format_size(f.size)})" as a string of
\* characters; the numeral of i and the size text are one character each
Label(i, f) == <<"[", ToString(i), "]", " ">> \o Name(f.path) \o <<" ", "(size)">>

GetFileOptions(s) ==
    IF ~HasCurrentGroup(s) THEN <<>>
    ELSE LET fs == GetCurrentGroup(s).files
         IN  [i \in 1..Len(fs) |-> Label(i, fs[i])]

\* val.split("]")[0]
BeforeBracket(val) ==
    LET hits == {k \in 1..Len(val) : val[k] = "]"}
    IN  IF hits = {} THEN val
        ELSE SubSeq(val, 1, (CHOOSE k \in hits : \A h \in hits : k <= h) - 1)

RECURSIVE StripOpen(_)
\* text.strip("[")
StripOpen(text) ==
    IF text = <<>> THEN text
    ELSE IF Head(text) = "[" THEN StripOpen(Tail(text))
    ELSE IF text[Len(text)] = "[" THEN StripOpen(SubSeq(text, 1, Len(text) - 1))
    ELSE text

Numerals == {ToString(n) : n \in 0..9}

\* int(text) succeeds on a numeral
IsInt(text) == Len(text) = 1 /\ text[1] \in Numerals
IntOf(text) == CHOOSE n \in 0..9 : ToString(n) = text[1]

GetSelectedIndices(s) ==
    {IntOf(StripOpen(BeforeBracket(val))) :
        val \in {v \in s.checked : IsInt(StripOpen(BeforeBracket(v)))}}

UpdateDisplay(s) ==
    LET options == GetFileOptions(s)
    IN  [s EXCEPT !.checked = IF options # <<>> THEN {options[1]} ELSE {}]

AdvanceGroup(s) ==
    IF s.current_index < Len(groups) - 1
    THEN UpdateDisplay([s EXCEPT !.current_index = @ + 1])
    ELSE UpdateDisplay([s EXCEPT !.status_text = "all_reviewed"])

\* _on_move counting every file it tried to move
OnMoveCountsAttempts(s, out) ==
    IF ~HasCurrentGroup(s) THEN s
    ELSE LET keep_indices == GetSelectedIndices(s)
         IN  IF keep_indices = {}
             THEN [s EXCEPT !.status_text = "please_select"]
             ELSE LET fs == GetCurrentGroup(s).files
                      r == DisposeOthers("m", fs, 1, keep_indices,
                                         s.w, s.dry_run, out)
                  IN  AdvanceGroup([s EXCEPT !.w = r.w,
                          !.stats.moved = @ + Cardinality((1..Len(fs)) \ keep_indices),
                          !.stats.reviewed = @ + 1,
                          !.status_text = "moved"])

OnMove(s, out) ==
    IF ~HasCurrentGroup(s) THEN s
    ELSE LET keep_indices == GetSelectedIndices(s)
         IN  IF keep_indices = {}
             THEN [s EXCEPT !.status_text = "please_select"]
             ELSE LET r == DisposeOthers("m", GetCurrentGroup(s).files, 1,
                                         keep_indices, s.w, s.dry_run, out)
                  IN  AdvanceGroup([s EXCEPT !.w = r.w,
                                             !.stats.moved = @ + r.count,
                                             !.stats.reviewed = @ + 1,
                                             !.status_text = "moved"])

OnDelete(s, out) ==
    IF ~HasCurrentGroup(s) THEN s
    ELSE LET keep_indices == GetSelectedIndices(s)
         IN  IF keep_indices = {}
             THEN [s EXCEPT !.status_text = "please_select"]
             ELSE LET r == DisposeOthers("d", GetCurrentGroup(s).files, 1,
                                         keep_indices, s.w, s.dry_run, out)
                  IN  AdvanceGroup([s EXCEPT !.w = r.w,
                                             !.stats.deleted = @ + r.count,
                                             !.stats.reviewed = @ + 1,
                                             !.status_text = "deleted"])

\* _on_skip counting the group as reviewed too
OnSkipCountsReviewed(s) ==
    AdvanceGroup([s EXCEPT !.stats.skipped = @ + 1, !.stats.reviewed = @ + 1,
                           !.status_text = "skipped"])

OnSkip(s) ==
    AdvanceGroup([s EXCEPT !.stats.skipped = @ + 1, !.status_text = "skipped"])

OnPrev(s) ==
    IF s.current_index > 0
    THEN [UpdateDisplay([s EXCEPT !.current_index = @ - 1]) EXCEPT !.status_text = ""]
    ELSE s

\* _on_next without its bound check
OnNextUnclamped(s) ==
    [UpdateDisplay([s EXCEPT !.current_index = @ + 1]) EXCEPT !.status_text = ""]

OnNext(s) ==
    IF s.current_index < Len(groups) - 1
    THEN [UpdateDisplay([s EXCEPT !.current_index = @ + 1]) EXCEPT !.status_text = ""]
    ELSE s

\* the user ticks and unticks check boxes: value becomes a subset of options
SetCheckboxes(s, value) == [s EXCEPT !.checked = value]

\* DuplicateReviewApp.__init__ (with _create_widgets: the first file is ticked)
NewApp(fl, dry_run) ==
    UpdateDisplay([dry_run |-> dry_run, w |-> World(fl), current_index |-> 0,
                   stats |-> ZeroStats, status_text |-> "select",
                   checked |-> {}, returned |-> FALSE])

----------------------------------------------------------------------------
(* interactive_cli_review.  current_index is the position of the for loop  *)
(* (0-based: i - 1 while group i is prompted, len(groups) once the loop is *)
(* exhausted); returned is set once the function has returned.  An input   *)
(* line is a sequence of words; a word is one character.                   *)

\* interactive_cli_review, before the first prompt
NewCli(fl, dry_run) ==
    [dry_run |-> dry_run, w |-> World(fl), current_index |-> 0,
     stats |-> ZeroStats, status_text |-> "", checked |-> {},
     returned |-> FALSE]

\* break: the for loop takes the next group, or ends and stats is returned
CliBreak(s) ==
    LET n == s.current_index + 1
    IN  [s EXCEPT !.current_index = n, !.returned = (n >= Len(groups))]

\* the q branch counting the group it leaves as skipped
CliQuitCountsSkip(s) == [s EXCEPT !.stats.skipped = @ + 1, !.returned = TRUE]

CliQuit(s) == [s EXCEPT !.returned = TRUE]

CliSkip(s) == CliBreak([s EXCEPT !.stats.skipped = @ + 1])

\* parts, or the answer to the second prompt when parts is empty
KeepParts(parts, more) == IF parts = <<>> THEN more ELSE parts

\* int(p) raises ValueError for some p
KeepValueError(ps) == \E k \in 1..Len(ps) : ~IsInt(<<ps[k]>>)

KeepIndices(ps) == {IntOf(<<ps[k]>>) : k \in 1..Len(ps)}

\* the k branch without the test keep_indices.issubset(valid_indices)
KeepRejectedValueOnly(s, ps) == KeepValueError(ps)

\* the k branch is left by continue (nothing happens)
KeepRejected(s, ps) ==
    \/ KeepValueError(ps)
    \/ ~(KeepIndices(ps) \subseteq 1..Len(GetCurrentGroup(s).files))

\* the k branch asking again when the action is neither m nor d
CliKeepAsksAgain(s, parts, more, action, out) ==
    LET ps == KeepParts(parts, more)
    IN  IF KeepRejected(s, ps) \/ action \notin {"m", "d"} THEN s
        ELSE LET r == DisposeOthers(action, GetCurrentGroup(s).files, 1,
                                    KeepIndices(ps), s.w, s.dry_run, out)
             IN  CliBreak([s EXCEPT
                    !.w = r.w,
                    !.stats.moved = @ + (IF action = "m" THEN r.count ELSE 0),
                    !.stats.deleted = @ + (IF action = "d" THEN r.count ELSE 0),
                    !.stats.reviewed = @ + 1])

CliKeep(s, parts, more, action, out) ==
    LET ps == KeepParts(parts, more)
    IN  IF KeepRejected(s, ps) THEN s
        ELSE LET r == DisposeOthers(action, GetCurrentGroup(s).files, 1,
                                    KeepIndices(ps), s.w, s.dry_run, out)
             IN  CliBreak([s EXCEPT
                    !.w = r.w,
                    !.stats.moved = @ + (IF action = "m" THEN r.count ELSE 0),
                    !.stats.deleted = @ + (IF action = "d" THEN r.count ELSE 0),
                    !.stats.reviewed = @ + 1])

\* choice == "m": keep the first file, move group.files[1:]
CliMove(s, out) ==
    LET r == DisposeOthers("m", GetCurrentGroup(s).files, 1, {1},
                           s.w, s.dry_run, out)
    IN  CliBreak([s EXCEPT !.w = r.w, !.stats.moved = @ + r.count,
                           !.stats.reviewed = @ + 1])

\* choice == "d": keep the first file, delete group.files[1:]
CliDelete(s, out) ==
    LET r == DisposeOthers("d", GetCurrentGroup(s).files, 1, {1},
                           s.w, s.dry_run, out)
    IN  CliBreak([s EXCEPT !.w = r.w, !.stats.deleted = @ + r.count,
                           !.stats.reviewed = @ + 1])

\* "Invalid choice. Use K, M, D, S, or Q."
CliInvalid(s) == s

----------------------------------------------------------------------------
(* Scanned and hashed file lists the review is run on, each with the       *)
(* --threshold of the run.  Perceptual hashes are bit vectors.             *)

ReviewInputs ==
    { \* three copies of one file
      [files |-> <<FileInfo(1, "h1", NoPHash), FileInfo(2, "h1", NoPHash),
                   FileInfo(3, "h1", NoPHash)>>, threshold |-> 1],
      \* two pairs of copies
      [files |-> <<FileInfo(1, "h1", NoPHash), FileInfo(2, "h1", NoPHash),
                   FileInfo(3, "h2", NoPHash), FileInfo(4, "h2", NoPHash)>>,
       threshold |-> 1],
      \* two copies of one image
      [files |-> <<FileInfo(1, "h1", <<0, 0, 0, 0>>),
                   FileInfo(2, "h1", <<0, 0, 0, 0>>)>>, threshold |-> 0],
      \* a pair of copies and a pair of similar images
      [files |-> <<FileInfo(1, "h1", NoPHash), FileInfo(2, "h1", NoPHash),
                   FileInfo(3, "h2", <<0, 0, 0, 0>>),
                   FileInfo(4, "h3", <<0, 0, 0, 1>>)>>, threshold |-> 1],
      \* a chain of three images, the third one beyond the threshold of the first
      [files |-> <<FileInfo(1, "h1", <<0, 0, 0, 0>>),
                   FileInfo(2, "h2", <<0, 0, 1, 1>>),
                   FileInfo(3, "h3", <<1, 1, 1, 1>>)>>, threshold |-> 2] }

Modes == {"cli", "gui"}

NewSession(m, fl, dry_run) ==
    IF m = "gui" THEN NewApp(fl, dry_run) ELSE NewCli(fl, dry_run)

NoEvent == [ev |-> "none", at |-> 0, keep |-> {}, accepted |-> FALSE]

\* One review pass, dry-run or live.
Init ==
    \E inp \in ReviewInputs, m \in Modes, dry_run \in BOOLEAN :
        /\ files = inp.files
        /\ groups = MergedGroups(inp.files, inp.threshold)
        /\ groups # <<>>
        /\ mode = m
        /\ sess = NewSession(m, inp.files, dry_run)
        /\ twin = <<>>
        /\ nev = 0
        /\ last = NoEvent

\* A live pass, and beside it a dry-run pass given the same events.
InitPair ==
    \E inp \in ReviewInputs, m \in Modes :
        /\ files = inp.files
        /\ groups = MergedGroups(inp.files, inp.threshold)
        /\ groups # <<>>
        /\ mode = m
        /\ sess = NewSession(m, inp.files, FALSE)
        /\ twin = <<NewSession(m, inp.files, TRUE)>>
        /\ nev = 0
        /\ last = NoEvent

\* The callback or input branch named by call c, run on session s.
Apply(s, c) ==
    CASE c.h = "set_checkboxes" -> SetCheckboxes(s, c.value)
      [] c.h = "on_move" -> OnMove(s, c.out)
      [] c.h = "on_delete" -> OnDelete(s, c.out)
      [] c.h = "on_skip" -> OnSkip(s)
      [] c.h = "on_prev" -> OnPrev(s)
      [] c.h = "on_next" -> OnNext(s)
      [] c.h = "q" -> CliQuit(s)
      [] c.h = "s" -> CliSkip(s)
      [] c.h = "k" -> CliKeep(s, c.parts, c.more, c.action, c.out)
      [] c.h = "m" -> CliMove(s, c.out)
      [] c.h = "d" -> CliDelete(s, c.out)
      [] OTHER -> CliInvalid(s)

\* Call c runs on the pass (and on its twin); e records the event.
Handle(c, e) ==
    /\ sess' = Apply(sess, c)
    /\ twin' = [k \in 1..Len(twin) |-> Apply(twin[k], c)]
    /\ nev' = nev + 1
    /\ last' = e
    /\ UNCHANGED <<files, groups, mode>>

\* paths of the current group's members at positions outside keep
NotKept(s, keep) ==
    IF ~HasCurrentGroup(s) THEN {}
    ELSE LET fs == GetCurrentGroup(s).files
         IN  {fs[j].path : j \in (1..Len(fs)) \ keep}

\* the operating system's answers to the calls of one handler
OutFns(s, paths, kinds) ==
    IF s.dry_run THEN {[p \in paths |-> "ok"]} ELSE [paths -> kinds]

GuiReady == mode = "gui" /\ nev < MaxEvents

GuiSelect ==
    /\ GuiReady
    /\ \E value \in SUBSET {GetFileOptions(sess)[k] : k \in 1..Len(GetFileOptions(sess))} :
          /\ value # sess.checked
          /\ Handle([h |-> "set_checkboxes", value |-> value],
                    [ev |-> "select", at |-> sess.current_index,
                     keep |-> {}, accepted |-> TRUE])

GuiAccepts(s) == HasCurrentGroup(s) /\ GetSelectedIndices(s) # {}

GuiMove ==
    /\ GuiReady
    /\ \E out \in OutFns(sess,
                         IF GuiAccepts(sess)
                         THEN NotKept(sess, GetSelectedIndices(sess)) ELSE {},
                         MoveOutcomes) :
          Handle([h |-> "on_move", out |-> out],
                 [ev |-> "move", at |-> sess.current_index,
                  keep |-> GetSelectedIndices(sess),
                  accepted |-> GuiAccepts(sess)])

GuiDelete ==
    /\ GuiReady
    /\ \E out \in OutFns(sess,
                         IF GuiAccepts(sess)
                         THEN NotKept(sess, GetSelectedIndices(sess)) ELSE {},
                         DeleteOutcomes) :
          Handle([h |-> "on_delete", out |-> out],
                 [ev |-> "delete", at |-> sess.current_index,
                  keep |-> GetSelectedIndices(sess),
                  accepted |-> GuiAccepts(sess)])

GuiSkip ==
    /\ GuiReady
    /\ Handle([h |-> "on_skip"], [ev |-> "skip", at |-> sess.current_index,
                       keep |-> {}, accepted |-> TRUE])

GuiPrev ==
    /\ GuiReady
    /\ Handle([h |-> "on_prev"], [ev |-> "prev", at |-> sess.current_index,
                       keep |-> {}, accepted |-> TRUE])

GuiNext ==
    /\ GuiReady
    /\ Handle([h |-> "on_next"], [ev |-> "next", at |-> sess.current_index,
                       keep |-> {}, accepted |-> TRUE])

\* the prompt "> " is waiting for a line
CliReady == mode = "cli" /\ ~sess.returned /\ nev < MaxEvents

Words == {"0", "1", "2", "3", "x"}
PartsSet == UNION {[1..n -> Words] : n \in 0..MaxParts}

\* what was typed as keep selection has a token that is not the numeral of
\* a position of the current group
BadSelection(s, ps) ==
    \E k \in 1..Len(ps) :
        ps[k] \notin {ToString(n) : n \in 1..Len(GetCurrentGroup(s).files)}

InputQuit ==
    /\ CliReady
    /\ Handle([h |-> "q"], [ev |-> "quit", at |-> sess.current_index,
                        keep |-> {}, accepted |-> TRUE])

InputSkip ==
    /\ CliReady
    /\ Handle([h |-> "s"], [ev |-> "skip", at |-> sess.current_index,
                        keep |-> {}, accepted |-> TRUE])

InputKeep ==
    /\ CliReady
    /\ \E parts \in PartsSet :
       \E more \in (IF parts = <<>> THEN PartsSet ELSE {<<>>}) :
          LET ps == KeepParts(parts, more)
              rejected == KeepRejected(sess, ps)
          IN  \E action \in (IF rejected THEN {"x"} ELSE {"m", "d", "x"}) :
              \E out \in OutFns(sess,
                                IF rejected \/ action = "x" THEN {}
                                ELSE NotKept(sess, KeepIndices(ps)),
                                IF action = "m" THEN MoveOutcomes
                                ELSE DeleteOutcomes) :
                 Handle([h |-> "k", parts |-> parts, more |-> more,
                         action |-> action, out |-> out],
                        [ev |-> IF BadSelection(sess, ps) THEN "keep_rejected"
                                ELSE IF action = "m" THEN "move"
                                ELSE IF action = "d" THEN "delete"
                                ELSE "keep_only",
                         at |-> sess.current_index,
                         keep |-> IF rejected THEN {} ELSE KeepIndices(ps),
                         accepted |-> ~rejected])

InputMove ==
    /\ CliReady
    /\ \E out \in OutFns(sess, NotKept(sess, {1}), MoveOutcomes) :
          Handle([h |-> "m", out |-> out],
                 [ev |-> "move", at |-> sess.current_index,
                  keep |-> {1}, accepted |-> TRUE])

InputDelete ==
    /\ CliReady
    /\ \E out \in OutFns(sess, NotKept(sess, {1}), DeleteOutcomes) :
          Handle([h |-> "d", out |-> out],
                 [ev |-> "delete", at |-> sess.current_index,
                  keep |-> {1}, accepted |-> TRUE])

InputInvalid ==
    /\ CliReady
    /\ Handle([h |-> "x"], [ev |-> "invalid", at |-> sess.current_index,
                           keep |-> {}, accepted |-> FALSE])

Next ==
    \/ GuiSelect \/ GuiMove \/ GuiDelete \/ GuiSkip \/ GuiPrev \/ GuiNext
    \/ InputQuit \/ InputSkip \/ InputKeep \/ InputMove \/ InputDelete
    \/ InputInvalid

Spec == Init /\ [][Next]_vars

SpecPair == InitPair /\ [][Next]_vars

----------------------------------------------------------------------------
(* Properties of the review and of the disposition executor.               *)

AllPaths == {files[k].path : k \in 1..Len(files)}

\* the number of calls of kind op ("move" or "delete") a pass has issued
Issued(s, op) ==
    Cardinality({k \in 1..Len(s.w.requests) : s.w.requests[k][1] = op})

\* the files a live pass has removed altogether
Deleted(s) == (AllPaths \ s.w.present) \ s.w.quarantine

\* the last step was a Move or a Delete the front end went through with
Disposed(e) == e.ev \in {"move", "delete"} /\ e.accepted

\* C1: a Move or Delete requested with an empty keep-set is rejected in both
\* front ends: no request is issued, no file is moved or deleted, and the
\* index and the four counters stay as they were.
C1_EmptyKeepSetRejected ==
    [][(last'.ev \in {"move", "delete"} /\ last'.keep = {})
         => /\ sess'.w = sess.w
            /\ sess'.current_index = sess.current_index
            /\ sess'.stats = sess.stats]_vars

\* C2: in a dry-run pass no file is moved or deleted and no quarantine
\* directory is created, whatever the events, and every call of
\* move_to_duplicates and delete_file returns success (each one is counted).
C2_DryRunTouchesNothing ==
    sess.dry_run =>
        /\ sess.w.present = AllPaths
        /\ sess.w.quarantine = {}
        /\ sess.w.dup_dir = FALSE
        /\ sess.stats.moved = Issued(sess, "move")
        /\ sess.stats.deleted = Issued(sess, "delete")

\* C2 witness: a dry-run pass that has gone through a Move and a Delete.
C2_Witness ==
    /\ sess.dry_run
    /\ Issued(sess, "move") > 0
    /\ Issued(sess, "delete") > 0

\* C3 as stated: after the same events a dry-run pass and a live pass have
\* the same four counters.
C3_SameCounters == \A k \in 1..Len(twin) : twin[k].stats = sess.stats

\* C3 amended: after the same events the two passes have issued the same
\* requests and have the same reviewed and skipped counters; the dry-run
\* pass counts every request as moved or deleted and leaves the filesystem
\* alone, the live pass counts the files it did move or delete, so the file
\* counters agree exactly when no live call failed.
C3_CountersUpToFailures ==
    \A k \in 1..Len(twin) :
        /\ twin[k].w.requests = sess.w.requests
        /\ twin[k].stats.reviewed = sess.stats.reviewed
        /\ twin[k].stats.skipped = sess.stats.skipped
        /\ twin[k].stats.moved = Issued(sess, "move")
        /\ twin[k].stats.deleted = Issued(sess, "delete")
        /\ sess.stats.moved = Cardinality(sess.w.quarantine)
        /\ sess.stats.deleted = Cardinality(Deleted(sess))
        /\ sess.stats.moved <= twin[k].stats.moved
        /\ sess.stats.deleted <= twin[k].stats.deleted
        /\ twin[k].w.present = AllPaths
        /\ twin[k].w.quarantine = {}
        /\ twin[k].w.dup_dir = FALSE

\* C3 witness: a live pass that moved one file and failed to move another,
\* beside its dry-run twin.
C3_Witness ==
    /\ twin # <<>>
    /\ sess.w.quarantine # {}
    /\ sess.stats.moved < twin[1].stats.moved

\* C4: over a whole pass no file is handed to move_to_duplicates or
\* delete_file more than once.
C4_NoSecondDisposition ==
    \A i, j \in 1..Len(sess.w.requests) :
        i # j => sess.w.requests[i][2] # sess.w.requests[j][2]

\* C5: in a live pass every group keeps at least one member at its
\* original path.
C5_OneMemberSurvives ==
    ~sess.dry_run =>
        \A g \in 1..Len(groups) :
            \E j \in 1..Len(groups[g].files) :
                groups[g].files[j].path \in sess.w.present

\* the front end has told the operator that every group is done: the status
\* line of the app, or the for loop of the line mode running out
Complete ==
    IF mode = "gui" THEN sess.status_text = "all_reviewed"
    ELSE sess.returned /\ last.ev # "quit"

\* C6: the index is always in [0, len(groups)], and the pass is complete
\* exactly when the index is len(groups).
C6_IndexRangeAndDone ==
    /\ sess.current_index \in 0..Len(groups)
    /\ Complete <=> sess.current_index = Len(groups)

\* C7: an accepted Move, Delete or Skip in Active(i) takes the index to
\* i + 1, to len(groups) on the last group.
C7_AdvancesByOne ==
    [][(last'.ev \in {"move", "delete", "skip"} /\ last'.accepted)
         => sess'.current_index = sess.current_index + 1]_vars

\* C8: once a Move, Delete or Skip has been applied to the last group, no
\* further event changes a counter or issues a request.
C8_DoneIsTerminal ==
    [][Complete => /\ sess'.stats = sess.stats
                   /\ sess'.w.requests = sess.w.requests]_vars

\* the requests a Move or Delete (op) of a group with keep-set keep is to
\* issue: one for each member outside keep, in member order
RequestsFor(op, fs, keep) ==
    LET idx == SelectSeq([j \in 1..Len(fs) |-> j], LAMBDA j : j \notin keep)
    IN  [m \in 1..Len(idx) |-> <<op, fs[idx[m]].path>>]

\* C9 as stated: an accepted Move (Delete) with non-empty keep-set K on n
\* members issues the n - |K| requests for the members outside K, adds 1 to
\* reviewed and n - |K| to moved (deleted), and leaves the other counters.
C9_CountsEveryRequest ==
    [][(Disposed(last') /\ last'.keep # {}) =>
        LET fs == groups[last'.at + 1].files
            rest == Len(fs) - Cardinality(last'.keep)
        IN  /\ sess'.w.requests =
                   sess.w.requests \o RequestsFor(last'.ev, fs, last'.keep)
            /\ sess'.stats.reviewed = sess.stats.reviewed + 1
            /\ sess'.stats.skipped = sess.stats.skipped
            /\ sess'.stats.moved =
                   sess.stats.moved + (IF last'.ev = "move" THEN rest ELSE 0)
            /\ sess'.stats.deleted =
                   sess.stats.deleted + (IF last'.ev = "delete" THEN rest ELSE 0)
       ]_vars

\* C9 amended: such a Move (Delete) issues exactly those n - |K| requests,
\* adds 1 to reviewed, and adds to moved (deleted) the number of its calls
\* that succeeded: n - |K| in a dry run, in a live pass the number of files
\* it did move (delete), at most n - |K|; skipped and the other file counter
\* are left alone.
C9_CountsSuccessfulRequests ==
    [][(Disposed(last') /\ last'.keep # {}) =>
        LET fs == groups[last'.at + 1].files
            rest == Len(fs) - Cardinality(last'.keep)
            done == IF sess.dry_run THEN rest
                    ELSE IF last'.ev = "move"
                    THEN Cardinality(sess'.w.quarantine \ sess.w.quarantine)
                    ELSE Cardinality(Deleted(sess') \ Deleted(sess))
        IN  /\ sess'.w.requests =
                   sess.w.requests \o RequestsFor(last'.ev, fs, last'.keep)
            /\ done <= rest
            /\ sess'.stats.reviewed = sess.stats.reviewed + 1
            /\ sess'.stats.skipped = sess.stats.skipped
            /\ sess'.stats.moved =
                   sess.stats.moved + (IF last'.ev = "move" THEN done ELSE 0)
            /\ sess'.stats.deleted =
                   sess.stats.deleted + (IF last'.ev = "delete" THEN done ELSE 0)
       ]_vars

\* C9 witness: a live Move keeping one of three members has just moved one
\* file and failed on the other.
C9_Witness ==
    /\ ~sess.dry_run
    /\ last.ev = "move" /\ last.accepted /\ last.keep = {2}
    /\ Len(sess.w.requests) = 2
    /\ sess.stats.moved = 1
    /\ Cardinality(sess.w.quarantine) = 1

\* C10: a Skip issues no request, leaves the filesystem and the reviewed,
\* moved and deleted counters alone, and adds exactly 1 to skipped.
C10_SkipOnlyCounts ==
    [][last'.ev = "skip" =>
        /\ sess'.w = sess.w
        /\ sess'.stats = [sess.stats EXCEPT !.skipped = @ + 1]
       ]_vars

\* C10 witness: a Skip right after a live Delete that removed a file.
C10_Witness ==
    /\ last.ev = "skip"
    /\ ~sess.dry_run
    /\ sess.stats.skipped = 1
    /\ sess.stats.deleted > 0

\* C11: Previous and Next of the app change the index by -1 or +1, clamped
\* to [0, len(groups) - 1] (no change at the boundary), and leave the four
\* counters and the filesystem alone and issue no request.
C11_NavigateOnlyMovesIndex ==
    [][last'.ev \in {"prev", "next"} =>
        LET i == sess.current_index
            top == Len(groups) - 1
        IN  /\ sess'.current_index =
                   IF last'.ev = "prev"
                   THEN (IF i > 0 THEN i - 1 ELSE i)
                   ELSE (IF i < top THEN i + 1 ELSE i)
            /\ sess'.current_index \in 0..top
            /\ sess'.stats = sess.stats
            /\ sess'.w = sess.w
       ]_vars

\* C11 witness: Previous has just gone back to the first group after a live
\* Move on it.
C11_Witness ==
    /\ last.ev = "prev" /\ last.at = 1
    /\ sess.current_index = 0
    /\ ~sess.dry_run
    /\ sess.stats.moved > 0

\* C12: a Quit in the line mode ends the pass at once: the counters are those
\* recorded before it, the filesystem is as the earlier dispositions left
\* it, and after it no counter changes and no request is issued.
C12_QuitEndsThePass ==
    [][/\ last'.ev = "quit" => /\ sess'.returned
                               /\ sess'.stats = sess.stats
                               /\ sess'.w = sess.w
       /\ sess.returned => /\ sess'.stats = sess.stats
                           /\ sess'.w = sess.w
      ]_vars

\* C12 witness: a Quit on the second group of a live pass whose first group
\* lost a file to Delete.
C12_Witness ==
    /\ last.ev = "quit" /\ last.at = 1
    /\ sess.returned
    /\ ~sess.dry_run
    /\ sess.current_index < Len(groups)
    /\ sess.stats.deleted > 0
    /\ sess.w.present # AllPaths

----------------------------------------------------------------------------
(* The two front ends side by side: sess is a line-mode pass, twin holds a *)
(* pass of the app over the same groups with the same dry_run flag, and    *)
(* each step gives both the same transition with the same keep-set (typed  *)
(* as "k <numbers>" and then "m" or "d" in the line mode; ticked and then  *)
(* clicked in the app).  The operating system answers both alike.          *)

InitFronts ==
    \E inp \in ReviewInputs, dry_run \in BOOLEAN :
        /\ files = inp.files
        /\ groups = MergedGroups(inp.files, inp.threshold)
        /\ groups # <<>>
        /\ mode = "both"
        /\ sess = NewCli(inp.files, dry_run)
        /\ twin = <<NewApp(inp.files, dry_run)>>
        /\ nev = 0
        /\ last = NoEvent

RECURSIVE NumeralsOf(_)
\* the numbers of keep, as the words typed after k
NumeralsOf(keep) ==
    IF keep = {} THEN <<>>
    ELSE LET m == CHOOSE x \in keep : \A y \in keep : x <= y
         IN  <<ToString(m)>> \o NumeralsOf(keep \ {m})

\* the check boxes of the app's current group at the positions of keep
LabelsOf(s, keep) ==
    LET options == GetFileOptions(s)
    IN  {options[k] : k \in keep \cap (1..Len(options))}

FrontsReady == mode = "both" /\ ~sess.returned /\ nev < MaxEvents

\* the non-empty keep-sets of the group the line mode is prompting
KeepSets == (SUBSET (1..Len(GetCurrentGroup(sess).files))) \ {{}}

BothDispose(action, kinds) ==
    /\ FrontsReady
    /\ \E keep \in KeepSets :
       \E out \in OutFns(sess, NotKept(sess, keep), kinds) :
          /\ sess' = CliKeep(sess, NumeralsOf(keep), <<>>, action, out)
          /\ twin' = <<IF action = "m"
                       THEN OnMove(SetCheckboxes(twin[1], LabelsOf(twin[1], keep)), out)
                       ELSE OnDelete(SetCheckboxes(twin[1], LabelsOf(twin[1], keep)), out)>>
          /\ nev' = nev + 1
          /\ last' = [ev |-> IF action = "m" THEN "move" ELSE "delete",
                      at |-> sess.current_index, keep |-> keep, accepted |-> TRUE]
          /\ UNCHANGED <<files, groups, mode>>

BothMove == BothDispose("m", MoveOutcomes)

BothDelete == BothDispose("d", DeleteOutcomes)

BothSkip ==
    /\ FrontsReady
    /\ sess' = CliSkip(sess)
    /\ twin' = <<OnSkip(twin[1])>>
    /\ nev' = nev + 1
    /\ last' = [ev |-> "skip", at |-> sess.current_index,
                keep |-> {}, accepted |-> TRUE]
    /\ UNCHANGED <<files, groups, mode>>

NextFronts == BothMove \/ BothDelete \/ BothSkip

SpecFronts == InitFronts /\ [][NextFronts]_vars

\* Done: the index is len(groups)
Done(s) == s.current_index = Len(groups)

\* C13: given the same groups, the same dry_run flag and the same Move,
\* Delete and Skip transitions with the same keep-sets, the line mode and
\* the app issue the same requests in the same order and have the same
\* counters and the same Active/Done state.
C13_FrontEndsAgree ==
    \A k \in 1..Len(twin) :
        /\ twin[k].w.requests = sess.w.requests
        /\ twin[k].stats = sess.stats
        /\ twin[k].current_index = sess.current_index
        /\ Done(twin[k]) <=> Done(sess)

\* the number of calls of the last step that failed, in a live pass
FailedCalls(s, s2) ==
    (Len(s2.w.requests) - Len(s.w.requests))
      - Cardinality(s2.w.quarantine \ s.w.quarantine)
      - Cardinality(Deleted(s2) \ Deleted(s))

\* C14: in a live pass, when the move or delete of one record fails, every
\* other member outside the keep-set still gets its request, reviewed is
\* incremented, the index advances, and the pass goes on to later groups.
C14_FailureIsPerRecord ==
    [][(~sess.dry_run /\ Disposed(last') /\ FailedCalls(sess, sess') > 0) =>
        /\ sess'.w.requests = sess.w.requests
               \o RequestsFor(last'.ev, groups[last'.at + 1].files, last'.keep)
        /\ sess'.stats.reviewed = sess.stats.reviewed + 1
        /\ sess'.current_index = sess.current_index + 1
        /\ sess'.current_index < Len(groups) => ~sess'.returned
       ]_vars

----------------------------------------------------------------------------
(* The grouping phase of main: find_exact_duplicates, then                 *)
(* find_similar_images, over every bounded list of hashed records.         *)

MaxFiles == 4

ContentHashes == {None, "h1", "h2"}
PerceptualHashes == {NoPHash, <<0, 0>>, <<0, 1>>, <<1, 1>>}
Thresholds == {0, 1, 2}

\* before scanning: no record yet
InitGroup ==
    /\ files = <<>>
    /\ groups = <<>>
    /\ mode = "main"
    /\ sess = None
    /\ twin = <<>>
    /\ nev = 0
    /\ last = [ev |-> "scan_files", threshold |-> 0]

\* scan_files finds one more file (record k has path k) and hash_files
\* fills in its two hashes, each of them possibly unset
ScanFile ==
    /\ mode = "main" /\ nev = 0
    /\ Len(files) < MaxFiles
    /\ \E ch \in ContentHashes, ph \in PerceptualHashes :
          files' = Append(files, FileInfo(Len(files) + 1, ch, ph))
    /\ last' = [ev |-> "hash_files", threshold |-> 0]
    /\ UNCHANGED <<groups, mode, sess, twin, nev>>

\* groups.extend(find_exact_duplicates(files))
FindExact ==
    /\ mode = "main" /\ nev = 0
    /\ groups' = groups \o FindExactDuplicates(files)
    /\ nev' = 1
    /\ last' = [ev |-> "find_exact_duplicates", threshold |-> 0]
    /\ UNCHANGED <<files, mode, sess, twin>>

\* groups.extend(find_similar_images(files, args.threshold))
FindSimilar ==
    /\ mode = "main" /\ nev = 1
    /\ \E threshold \in Thresholds :
          /\ groups' = groups \o FindSimilarImages(files, threshold)
          /\ last' = [ev |-> "find_similar_images", threshold |-> threshold]
    /\ nev' = 2
    /\ UNCHANGED <<files, mode, sess, twin>>

NextGroup == ScanFile \/ FindExact \/ FindSimilar

SpecGroup == InitGroup /\ [][NextGroup]_vars

----------------------------------------------------------------------------
(* Properties of the grouping phase *)

ExactGroups == SelectSeq(groups, LAMBDA g : g.group_type = "exact")
SimilarGroups == SelectSeq(groups, LAMBDA g : g.group_type = "similar")
Members(g) == {g.files[k] : k \in 1..Len(g.files)}
Records == {files[k] : k \in 1..Len(files)}
Images == {f \in Records : f.perceptual_hash # NoPHash}
ExactDone == mode = "main" /\ nev >= 1
SimilarDone == mode = "main" /\ last.ev = "find_similar_images"
Dist(f1, f2) == HashDistance(f1.perceptual_hash, f2.perceptual_hash)
\* the groups of gs that record f is a member of
GroupsOf(gs, f) == {k \in 1..Len(gs) : f \in Members(gs[k])}
\* the position in the scanned list of the first record with content hash h
FirstSeen(h) ==
    CHOOSE i \in 1..Len(files) :
        /\ files[i].content_hash = h
        /\ \A j \in 1..(i - 1) : files[j].content_hash # h

\* C15: the records sharing a content hash held by at least 2 records are
\* the members of one and the same exact group, and a record whose content
\* hash no other record has is in no exact group.
C15_ExactGroupsPartitionByHash ==
    ExactDone =>
        \A f \in Records :
            f.content_hash # None =>
                LET same == {r \in Records : r.content_hash = f.content_hash}
                    in == GroupsOf(ExactGroups, f)
                IN  IF Cardinality(same) >= 2
                    THEN /\ Cardinality(in) = 1
                         /\ \A k \in in : Members(ExactGroups[k]) = same
                    ELSE in = {}

\* two copies and an unrelated file: one group of the copies only
C15_Witness ==
    /\ ExactDone
    /\ Len(files) = 3
    /\ Len(ExactGroups) = 1
    /\ Len(ExactGroups[1].files) = 2
    /\ \E f \in Records :
          /\ f.content_hash # None
          /\ GroupsOf(ExactGroups, f) = {}

\* C16: the result of find_exact_duplicates is fixed by the input list: each
\* exact group lists its members in the order they occur in the input, and
\* the groups come in the order in which their hashes first occur.
C16_ExactGroupsKeepInputOrder ==
    ExactDone =>
        /\ \A k \in 1..Len(ExactGroups) :
              ExactGroups[k].files =
                  SelectSeq(files, LAMBDA f :
                      f.content_hash = ExactGroups[k].files[1].content_hash)
        /\ \A a, b \in 1..Len(ExactGroups) :
              a < b => FirstSeen(ExactGroups[a].files[1].content_hash)
                         < FirstSeen(ExactGroups[b].files[1].content_hash)

\* two interleaved pairs of copies
C16_Witness ==
    /\ ExactDone
    /\ Len(ExactGroups) = 2
    /\ ExactGroups[1].files[1].content_hash = "h2"
    /\ ExactGroups[1].files[2].path = 3
    /\ ExactGroups[2].files[2].path = 4

\* C17: in every similar group the first member is the seed, the earliest
\* of its members in scan order, and every other member is within the
\* threshold of it.
C17_MembersWithinThresholdOfSeed ==
    SimilarDone =>
        \A g \in 1..Len(SimilarGroups) :
            \A k \in 2..Len(SimilarGroups[g].files) :
                /\ Dist(SimilarGroups[g].files[1], SimilarGroups[g].files[k])
                       <= last.threshold
                /\ SimilarGroups[g].files[1].path < SimilarGroups[g].files[k].path

\* a group of three whose two non-seed members are beyond the threshold of
\* each other
C17_Witness ==
    /\ SimilarDone
    /\ \E g \in 1..Len(SimilarGroups) :
          /\ Len(SimilarGroups[g].files) = 3
          /\ Dist(SimilarGroups[g].files[2], SimilarGroups[g].files[3])
                > last.threshold

\* f is a non-seed member of a similar group whose seed comes before record p
ClaimedBefore(f, p) ==
    \E g \in 1..Len(SimilarGroups) :
        /\ f \in Members(SimilarGroups[g])
        /\ f # SimilarGroups[g].files[1]
        /\ SimilarGroups[g].files[1].path < p.path

SameSimilarGroup(f1, f2) ==
    \E g \in 1..Len(SimilarGroups) : {f1, f2} \subseteq Members(SimilarGroups[g])

\* C18 as stated: two images within the threshold are in the same similar
\* group unless the later one was claimed by a cluster seeded before it.
C18_CloseUnlessLaterClaimed ==
    SimilarDone =>
        \A f1, f2 \in Images :
            (f1.path < f2.path /\ Dist(f1, f2) <= last.threshold) =>
                \/ SameSimilarGroup(f1, f2)
                \/ ClaimedBefore(f2, f2)

\* C18: two images within the threshold are in the same similar group unless
\* one of the two was claimed by a cluster seeded before the earlier one.
C18_CloseUnlessEitherClaimed ==
    SimilarDone =>
        \A f1, f2 \in Images :
            (f1.path < f2.path /\ Dist(f1, f2) <= last.threshold) =>
                \/ SameSimilarGroup(f1, f2)
                \/ ClaimedBefore(f1, f1)
                \/ ClaimedBefore(f2, f1)

\* two images within the threshold, the earlier one claimed by an earlier
\* seed, the later one in no group
C18_Witness ==
    /\ SimilarDone
    /\ \E f1, f2 \in Images :
          /\ f1.path < f2.path
          /\ Dist(f1, f2) <= last.threshold
          /\ ClaimedBefore(f1, f1)
          /\ GroupsOf(SimilarGroups, f2) = {}

\* the images in scan order are a chain A, B, C
IsChain ==
    LET imgs == SelectSeq(files, LAMBDA f : f.perceptual_hash # NoPHash)
    IN  /\ Len(imgs) = 3
        /\ Dist(imgs[1], imgs[2]) <= last.threshold
        /\ Dist(imgs[2], imgs[3]) <= last.threshold
        /\ Dist(imgs[1], imgs[3]) > last.threshold

\* C19: an image within the threshold of a non-seed member of a similar
\* group but beyond the threshold of its seed is not a member of that group;
\* for a chain A, B, C the result is exactly the one group A, B.
C19_StarAroundTheSeed ==
    SimilarDone =>
        /\ \A g \in 1..Len(SimilarGroups) : \A r \in Images :
              (/\ \E k \in 2..Len(SimilarGroups[g].files) :
                     Dist(r, SimilarGroups[g].files[k]) <= last.threshold
               /\ Dist(r, SimilarGroups[g].files[1]) > last.threshold)
              => r \notin Members(SimilarGroups[g])
        /\ IsChain =>
              LET imgs == SelectSeq(files, LAMBDA f : f.perceptual_hash # NoPHash)
              IN  SimilarGroups =
                    <<DuplicateGroup("similar", <<imgs[1], imgs[2]>>, last.threshold)>>

C19_Witness == SimilarDone /\ IsChain /\ Len(files) = 3

\* C20: in the merged list every group has at least 2 members and every
\* record is in at most one exact group and in at most one similar group.
C20_MergedListInvariant ==
    ExactDone =>
        /\ \A k \in 1..Len(groups) : Len(groups[k].files) >= 2
        /\ \A f \in Records :
              /\ Cardinality(GroupsOf(ExactGroups, f)) <= 1
              /\ Cardinality(GroupsOf(SimilarGroups, f)) <= 1

\* two exact and two similar groups, a record in one of each
C20_Witness ==
    /\ SimilarDone
    /\ Len(ExactGroups) = 2
    /\ Len(SimilarGroups) = 2
    /\ \E f \in Records :
          /\ GroupsOf(ExactGroups, f) # {}
          /\ GroupsOf(SimilarGroups, f) # {}

\* C21: no member of an exact group has its content hash unset; no member
\* of a similar group has its perceptual hash unset, and the similar groups
\* are those of the list without the records whose perceptual hash is unset
\* (such a record is no seed and is compared with none).
C21_UnsetHashesTakeNoPart ==
    /\ ExactDone =>
          \A g \in 1..Len(ExactGroups) : \A f \in Members(ExactGroups[g]) :
              f.content_hash # None
    /\ SimilarDone =>
          /\ \A g \in 1..Len(SimilarGroups) : \A f \in Members(SimilarGroups[g]) :
                f.perceptual_hash # NoPHash
          /\ SimilarGroups =
                SimilarOuter(SelectSeq(files, LAMBDA f : f.perceptual_hash # NoPHash),
                             1, last.threshold, [grouped |-> {}, groups |-> <<>>])

\* a record without content hash and a record without perceptual hash next
\* to an exact and a similar group
C21_Witness ==
    /\ SimilarDone
    /\ ExactGroups # <<>>
    /\ SimilarGroups # <<>>
    /\ \E f \in Records : f.content_hash = None /\ f.perceptual_hash # NoPHash
    /\ \E f \in Records : f.perceptual_hash = NoPHash /\ f.content_hash # None

\* C27: reviewed + skipped never exceeds len(groups), and when the line mode
\* ends without Quit the sum is len(groups).
C27_EachGroupCountedOnce ==
    /\ sess.stats.reviewed + sess.stats.skipped <= Len(groups)
    /\ (mode = "cli" /\ sess.returned /\ last.ev # "quit")
          => sess.stats.reviewed + sess.stats.skipped = Len(groups)

\* C28: a keep selection with a token that is no integer or a position
\* outside 1..len(group.files) changes nothing: no request, no counter, the
\* same group is asked about again.
C28_BadSelectionRejected ==
    [][last'.ev = "keep_rejected" =>
        /\ sess'.w = sess.w
        /\ sess'.stats = sess.stats
        /\ sess'.current_index = sess.current_index
        /\ ~sess'.returned ]_vars

\* a rejected selection on the second group of a live pass that has moved
\* a file
C28_Witness ==
    /\ mode = "cli" /\ ~sess.dry_run
    /\ last.ev = "keep_rejected" /\ last.at = 1
    /\ sess.current_index = 1
    /\ sess.stats.moved > 0

\* C29: after a valid keep selection, an action other than m and d issues
\* no request and leaves the filesystem, moved, deleted and skipped alone,
\* adds 1 to reviewed and goes on to the next group.
C29_KeepWithoutAction ==
    [][last'.ev = "keep_only" =>
        /\ sess'.w = sess.w
        /\ sess'.stats = [sess.stats EXCEPT !.reviewed = @ + 1]
        /\ sess'.current_index = sess.current_index + 1
        /\ sess'.returned = (sess'.current_index = Len(groups)) ]_vars

\* a live pass whose only event kept file 2 of three and named no action
C29_Witness ==
    /\ mode = "cli" /\ ~sess.dry_run
    /\ last.ev = "keep_only" /\ last.keep = {2}
    /\ sess.stats.reviewed = 1
    /\ sess.w.requests = <<>>
    /\ sess.w.present = AllPaths

----------------------------------------------------------------------------
(* move_to_duplicates on paths.  A path is the sequence of its components; *)
(* a filesystem fs is [files, dirs], the sets of paths that are files and  *)
(* directories.                                                            *)

RootDir == <<"r">>
DuplicatesDir == RootDir \o <<"_duplicates">>

IsUnder(path, dir) ==
    Len(dir) <= Len(path) /\ SubSeq(path, 1, Len(dir)) = dir

BaseName(path) == path[Len(path)]
Parent(path) == SubSeq(path, 1, Len(path) - 1)
\* the path and the directories above it
UpTo(path) == {SubSeq(path, 1, k) : k \in 1..Len(path)}

\* file_path.relative_to(root_dir), or Path(file_path.name) on ValueError
Relative(file_path, root_dir) ==
    IF IsUnder(file_path, root_dir)
    THEN SubSeq(file_path, Len(root_dir) + 1, Len(file_path))
    ELSE <<BaseName(file_path)>>

DestPath(file_path, root_dir, duplicates_dir) ==
    duplicates_dir \o Relative(file_path, root_dir)

\* dir.mkdir(parents=True, exist_ok=True): fails when a component is a file
Mkdir(fs, dir) ==
    IF UpTo(dir) \cap fs.files # {} THEN [fs |-> fs, ok |-> FALSE]
    ELSE [fs |-> [fs EXCEPT !.dirs = @ \cup UpTo(dir)], ok |-> TRUE]

\* shutil.move(src, dst): into dst when dst is a directory, else onto dst
ShutilMove(fs, src, dst) ==
    LET real_dst == IF dst \in fs.dirs THEN dst \o <<BaseName(src)>> ELSE dst
    IN  IF src \notin fs.files THEN [fs |-> fs, ok |-> FALSE]
        ELSE IF dst \in fs.dirs /\ real_dst \in fs.files \cup fs.dirs
        THEN [fs |-> fs, ok |-> FALSE]
        ELSE [fs |-> [fs EXCEPT !.files = (@ \ {src}) \cup {real_dst}],
              ok |-> TRUE]

\* move_to_duplicates; outcome is what the operating system does beyond what
\* fs decides: "mkdir_err" fails mkdir, "io_err" fails the move
MoveToDuplicatesFs(fs, file_path, root_dir, duplicates_dir, dry_run, outcome) ==
    LET dest_path == DestPath(file_path, root_dir, duplicates_dir)
        made == Mkdir(fs, Parent(dest_path))
        moved == ShutilMove(made.fs, file_path, dest_path)
    IN  IF dry_run THEN [fs |-> fs, ok |-> TRUE]
        ELSE IF outcome = "mkdir_err" \/ ~made.ok THEN [fs |-> fs, ok |-> FALSE]
        ELSE IF outcome = "io_err" \/ ~moved.ok THEN [fs |-> made.fs, ok |-> FALSE]
        ELSE [fs |-> moved.fs, ok |-> TRUE]

\* files the calls are made on: in the root, below it, and outside it
SourcePaths ==
    {<<"r", "a">>, <<"r", "d", "a">>, <<"r", "d", "b">>, <<"o", "a">>}

\* what an earlier run may have left where the quarantine directory goes
EarlierQuarantine ==
    { [files |-> {}, dirs |-> {}],
      [files |-> {}, dirs |-> {DuplicatesDir}],
      [files |-> {DuplicatesDir}, dirs |-> {}],
      [files |-> {DuplicatesDir \o <<"a">>}, dirs |-> {DuplicatesDir}],
      [files |-> {}, dirs |-> {DuplicatesDir, DuplicatesDir \o <<"a">>}] }

InitMove ==
    \E present \in (SUBSET SourcePaths) \ {{}}, q \in EarlierQuarantine,
       dry_run \in BOOLEAN :
        /\ files = <<>>
        /\ groups = <<>>
        /\ mode = "move"
        /\ sess = [dry_run |-> dry_run,
                   fs |-> [files |-> present \cup q.files,
                           dirs |-> UNION {UpTo(Parent(f)) : f \in present}
                                      \cup {RootDir} \cup q.dirs]]
        /\ twin = <<>>
        /\ nev = 0
        /\ last = [ev |-> "none", path |-> <<>>, ok |-> FALSE]

\* one call move_to_duplicates(file_path, root_dir, duplicates_dir, dry_run)
MoveCall ==
    /\ mode = "move" /\ nev < MaxEvents
    /\ \E file_path \in SourcePaths, outcome \in MoveOutcomes :
          LET r == MoveToDuplicatesFs(sess.fs, file_path, RootDir, DuplicatesDir,
                                      sess.dry_run, outcome)
          IN  /\ sess' = [sess EXCEPT !.fs = r.fs]
              /\ last' = [ev |-> "move_to_duplicates", path |-> file_path,
                          ok |-> r.ok]
    /\ nev' = nev + 1
    /\ UNCHANGED <<files, groups, mode, twin>>

NextMove == MoveCall

SpecMove == InitMove /\ [][NextMove]_vars

\* C22: a live move_to_duplicates that succeeds leaves the file at
\* duplicates_dir joined with its path relative to the root (its bare name
\* when it is outside the root), with the quarantine directory and every
\* directory above the destination existing, and no longer at its path.
C22_MovedToRelativePath ==
    [][(last'.ev = "move_to_duplicates" /\ last'.ok /\ ~sess.dry_run) =>
        LET dest == DuplicatesDir \o
                      (IF IsUnder(last'.path, RootDir)
                       THEN SubSeq(last'.path, 2, Len(last'.path))
                       ELSE <<last'.path[Len(last'.path)]>>)
        IN  /\ dest \in sess'.fs.files
            /\ last'.path \notin sess'.fs.files
            /\ UpTo(Parent(dest)) \subseteq sess'.fs.dirs ]_vars

----------------------------------------------------------------------------
(* scan_files and hash_files on a directory tree.  A tree is the set of    *)
(* its files, each [path, suffix, content, picture]: content is the digest *)
(* of its bytes, picture the perceptual hash an image decoder would give.  *)
(* The directories are the paths above the files.  sess is the frame of    *)
(* the run: pc, the tree, the directories os.walk has still to visit, the  *)
(* loop index of hash_files, the two hashing flags, the failures met so    *)
(* far, the exit status, what the root path is, the number of reports      *)
(* written, and the log of the calls made.                                 *)

EXCLUDED_FILES == {".gitignore"}
EXCLUDED_DIRS == {".git"}
IMAGE_EXTENSIONS == {".jpg"}

TreeFile(path, suffix, content, picture) ==
    [path |-> path, suffix |-> suffix, content |-> content, picture |-> picture]

\* the files a tree is made of
TreeFiles ==
    { TreeFile(<<"r", "a.jpg">>, ".jpg", "h1", <<0, 0>>),
      TreeFile(<<"r", "b.jpg">>, ".jpg", "h1", <<0, 0>>),
      TreeFile(<<"r", "d", "c.jpg">>, ".jpg", "h2", <<0, 1>>),
      TreeFile(<<"r", "n.txt">>, ".txt", "h2", NoPHash),
      TreeFile(<<"r", "d", ".gitignore">>, "", "h1", NoPHash),
      TreeFile(<<"r", ".git", "a.jpg">>, ".jpg", "h1", <<0, 0>>),
      TreeFile(<<"r", "d", ".git", "e.txt">>, ".txt", "h2", NoPHash) }

\* the enumerations of a finite set, in every order
Perms(S) ==
    {s \in [1..Cardinality(S) -> S] : \A i, j \in 1..Cardinality(S) : i # j => s[i] # s[j]}

\* filenames of os.walk for dirpath
FileNames(tree, dirpath) == {e \in tree : Parent(e.path) = dirpath}

\* dirnames of os.walk for dirpath, as paths
DirNames(tree, dirpath) ==
    {SubSeq(e.path, 1, Len(dirpath) + 1) :
        e \in {x \in tree : IsUnder(x.path, dirpath) /\ Len(x.path) > Len(dirpath) + 1}}

\* the filter on dirnames applied in the top directory only
KeptDirsTopOnly(tree, dirpath) ==
    {d \in DirNames(tree, dirpath) : Len(dirpath) > 1 \/ BaseName(d) \notin EXCLUDED_DIRS}

\* dirnames[:] = [d for d in dirnames if d not in EXCLUDED_DIRS]
KeptDirs(tree, dirpath) ==
    {d \in DirNames(tree, dirpath) : BaseName(d) \notin EXCLUDED_DIRS}

\* the files stat is called on
Statted(tree, dirpath) ==
    {e \in FileNames(tree, dirpath) : BaseName(e.path) \notin EXCLUDED_FILES}

\* the records appended for one directory: names listed in order, stat
\* failing for the files in bad
Appended(order, bad) ==
    LET kept == SelectSeq(order, LAMBDA e :
                    BaseName(e.path) \notin EXCLUDED_FILES /\ e \notin bad)
    IN  [k \in 1..Len(kept) |-> FileInfo(kept[k].path, None, NoPHash)]

Frame(tree, dch, dph) ==
    [pc |-> "scan_files", tree |-> tree, pending |-> <<RootDir>>, i |-> 1,
     do_content_hash |-> dch, do_perceptual_hash |-> dph,
     failed |-> {}, status |-> None,
     root_kind |-> "dir", reports |-> 0, log |-> <<>>]

InitScan ==
    \E tree \in SUBSET TreeFiles, dch \in BOOLEAN, dph \in BOOLEAN :
        /\ files = <<>>
        /\ groups = <<>>
        /\ mode = "run"
        /\ sess = Frame(tree, dch, dph)
        /\ twin = <<>>
        /\ nev = 0
        /\ last = [ev |-> "none"]

\* one round of the os.walk loop of scan_files; after the last one main goes
\* on to hash_files, or returns 0 when no file was found
ScanDir ==
    /\ mode = "run" /\ sess.pc = "scan_files"
    /\ LET dirpath == Head(sess.pending)
       IN  \E order \in Perms(FileNames(sess.tree, dirpath)),
              dirs \in Perms(KeptDirs(sess.tree, dirpath)),
              bad \in SUBSET Statted(sess.tree, dirpath) :
              LET pending == dirs \o Tail(sess.pending)
                  found == files \o Appended(order, bad)
              IN  /\ files' = found
                  /\ sess' = [sess EXCEPT
                        !.pending = pending,
                        !.log = Append(@, "scan_files"),
                        !.failed = @ \cup {<<e.path, "stat">> : e \in bad},
                        !.pc = IF pending # <<>> THEN "scan_files"
                               ELSE IF found = <<>> THEN "exit"
                               ELSE "hash_files",
                        !.status = IF pending = <<>> /\ found = <<>> THEN 0 ELSE @]
    /\ last' = [ev |-> "scan_files"]
    /\ UNCHANGED <<groups, mode, twin, nev>>

\* the body of the hash_files loop giving up the record when its read fails
HashOneSkipsFile(file_info, e, dch, dph, read_ok, decode_ok) ==
    [file_info EXCEPT
        !.content_hash = IF dch /\ read_ok THEN e.content ELSE None,
        !.perceptual_hash =
            IF dph /\ read_ok /\ e.suffix \in IMAGE_EXTENSIONS /\ decode_ok
            THEN e.picture ELSE NoPHash]

\* the body of the hash_files loop for one record: get_content_hash raises
\* OSError when read_ok is false, get_perceptual_hash returns None for a
\* suffix that is no image suffix and when the decoder fails
HashOne(file_info, e, dch, dph, read_ok, decode_ok) ==
    [file_info EXCEPT
        !.content_hash = IF dch /\ read_ok THEN e.content ELSE None,
        !.perceptual_hash =
            IF dph /\ e.suffix \in IMAGE_EXTENSIONS /\ decode_ok
            THEN e.picture ELSE NoPHash]

EntryOf(tree, path) == CHOOSE e \in tree : e.path = path

\* one round of the hash_files loop; after the last one main goes on to
\* find_exact_duplicates
HashFile ==
    /\ mode = "run" /\ sess.pc = "hash_files"
    /\ LET e == EntryOf(sess.tree, files[sess.i].path)
       IN  \E read_ok \in (IF sess.do_content_hash THEN BOOLEAN ELSE {TRUE}),
              decode_ok \in (IF sess.do_perceptual_hash /\ e.suffix \in IMAGE_EXTENSIONS
                             THEN BOOLEAN ELSE {TRUE}) :
              /\ files' = [files EXCEPT ![sess.i] =
                              HashOne(@, e, sess.do_content_hash,
                                      sess.do_perceptual_hash, read_ok, decode_ok)]
              /\ sess' = [sess EXCEPT
                    !.i = @ + 1,
                    !.log = Append(@, "hash_files"),
                    !.failed = @ \cup (IF read_ok THEN {} ELSE {<<e.path, "read">>})
                                 \cup (IF decode_ok THEN {} ELSE {<<e.path, "decode">>}),
                    !.pc = IF sess.i = Len(files) THEN "find_exact" ELSE @]
    /\ last' = [ev |-> "hash_files"]
    /\ UNCHANGED <<groups, mode, twin, nev>>

NextScan == ScanDir \/ HashFile

SpecScan == InitScan /\ [][NextScan]_vars

ScanDone == mode = "run" /\ sess.pc # "scan_files"
HashDone == mode = "run" /\ sess.pc \notin {"scan_files", "hash_files"} /\ files # <<>>
ScannedPaths == {files[k].path : k \in 1..Len(files)}

\* no directory between the root and the file has an excluded name
Descended(path) == \A k \in 2..(Len(path) - 1) : path[k] \notin EXCLUDED_DIRS

\* C23: when hash_files is through, every record has been dealt with: its
\* content hash is unset exactly when content hashing is off or its read
\* failed, its perceptual hash is unset exactly when perceptual hashing is
\* off, it has no image suffix or its decoding failed; every other hash is
\* the file's own, whatever failed on the records before it.
C23_HashFailureIsPerFile ==
    HashDone =>
        \A k \in 1..Len(files) :
            LET e == EntryOf(sess.tree, files[k].path)
            IN  /\ files[k].content_hash =
                      IF sess.do_content_hash /\ <<e.path, "read">> \notin sess.failed
                      THEN e.content ELSE None
                /\ files[k].perceptual_hash =
                      IF /\ sess.do_perceptual_hash
                         /\ e.suffix \in IMAGE_EXTENSIONS
                         /\ <<e.path, "decode">> \notin sess.failed
                      THEN e.picture ELSE NoPHash

\* the read of the first record failed, the decoding of another one too,
\* and the last record has both its hashes
C23_Witness ==
    /\ HashDone
    /\ Len(files) >= 3
    /\ <<files[1].path, "read">> \in sess.failed
    /\ files[1].perceptual_hash # NoPHash
    /\ \E k \in 2..Len(files) : <<files[k].path, "decode">> \in sess.failed
                                   /\ files[k].content_hash # None
    /\ files[Len(files)].content_hash # None
    /\ files[Len(files)].perceptual_hash # NoPHash

\* C26: scan_files returns exactly one record for each file of the tree
\* that lies under no directory with an excluded name, has no excluded
\* name, and whose stat did not fail.
C26_ScanReturnsEveryFileOnce ==
    ScanDone =>
        /\ ScannedPaths =
              {e.path : e \in {x \in sess.tree :
                  /\ Descended(x.path)
                  /\ BaseName(x.path) \notin EXCLUDED_FILES
                  /\ <<x.path, "stat">> \notin sess.failed}}
        /\ Cardinality(ScannedPaths) = Len(files)

\* the whole tree scanned, one stat failed in a subdirectory, a file found
\* after it
C26_Witness ==
    /\ ScanDone
    /\ sess.tree = TreeFiles
    /\ <<(<<"r", "d", "c.jpg">>), "stat">> \in sess.failed
    /\ Len(files) = 3

----------------------------------------------------------------------------
(* main, from the check of the root path to its return.  The line-mode     *)
(* review it starts is the session twin[1].                                *)

\* the trees main is run on: the images outside excluded directories
MainFiles == {e \in TreeFiles : e.suffix \in IMAGE_EXTENSIONS /\ Descended(e.path)}

InitMain ==
    \E tree \in SUBSET MainFiles, dch \in BOOLEAN, dph \in BOOLEAN :
        /\ files = <<>>
        /\ groups = <<>>
        /\ mode = "run"
        /\ sess = [Frame(tree, dch, dph) EXCEPT !.pc = "validate", !.root_kind = "unknown"]
        /\ twin = <<>>
        /\ nev = 0
        /\ last = [ev |-> "none"]

RootKinds == {"missing", "file", "dir"}

\* root_dir.exists() and root_dir.is_dir()
MainValidate ==
    /\ mode = "run" /\ sess.pc = "validate"
    /\ \E kind \in RootKinds :
          sess' = [sess EXCEPT
                      !.root_kind = kind,
                      !.tree = IF kind = "dir" THEN @ ELSE {},
                      !.pc = IF kind = "dir" THEN "scan_files" ELSE "exit",
                      !.status = IF kind = "dir" THEN @ ELSE 1]
    /\ last' = [ev |-> "validate"]
    /\ UNCHANGED <<files, groups, mode, twin, nev>>

\* if do_content_hash: groups.extend(find_exact_duplicates(files))
MainExact ==
    /\ mode = "run" /\ sess.pc = "find_exact"
    /\ groups' = IF sess.do_content_hash THEN groups \o FindExactDuplicates(files)
                 ELSE groups
    /\ sess' = [sess EXCEPT
          !.pc = "find_similar",
          !.log = IF sess.do_content_hash THEN Append(@, "find_exact_duplicates") ELSE @]
    /\ last' = [ev |-> "find_exact_duplicates"]
    /\ UNCHANGED <<files, mode, twin, nev>>

\* if do_perceptual_hash: groups.extend(find_similar_images(files,
\* args.threshold)); then main returns 0 when there is no group
MainSimilar ==
    /\ mode = "run" /\ sess.pc = "find_similar"
    /\ \E threshold \in Thresholds :
          groups' = IF sess.do_perceptual_hash
                    THEN groups \o FindSimilarImages(files, threshold)
                    ELSE groups
    /\ sess' = [sess EXCEPT
          !.pc = IF groups' = <<>> THEN "exit" ELSE "generate_report",
          !.status = IF groups' = <<>> THEN 0 ELSE @,
          !.log = IF sess.do_perceptual_hash THEN Append(@, "find_similar_images") ELSE @]
    /\ last' = [ev |-> "find_similar_images"]
    /\ UNCHANGED <<files, mode, twin, nev>>

ReportOutcomes == {"ok", "io_err"}

\* the number of reports on disk after a call writing one more
WrittenTwice(reports, outcome) == IF outcome = "ok" THEN reports + 2 ELSE reports

\* the number of reports written after generate_report: open() or a write
\* raising OSError leaves none
Written(reports, outcome) == IF outcome = "ok" THEN reports + 1 ELSE reports

\* generate_report(groups, report_path), whose OSError nothing catches; then
\* return 0 under --report-only, else interactive_cli_review is entered
MainReport ==
    /\ mode = "run" /\ sess.pc = "generate_report"
    /\ \E outcome \in ReportOutcomes, report_only \in BOOLEAN, dry_run \in BOOLEAN :
          /\ sess' = [sess EXCEPT
                !.reports = Written(@, outcome),
                !.log = Append(@, "generate_report"),
                !.pc = IF outcome = "ok" /\ ~report_only THEN "review" ELSE "exit",
                !.status = IF outcome # "ok" THEN 1
                           ELSE IF report_only THEN 0 ELSE @]
          /\ twin' = IF outcome = "ok" /\ ~report_only
                     THEN <<NewCli(files, dry_run)>> ELSE twin
    /\ last' = [ev |-> "generate_report"]
    /\ UNCHANGED <<files, groups, mode, nev>>

\* the lines typed at the prompt of the review, with the operating system's
\* answers to the calls they lead to
ReviewCalls(s) ==
    {[h |-> "q"], [h |-> "s"]}
      \cup {[h |-> "m", out |-> out] : out \in OutFns(s, NotKept(s, {1}), MoveOutcomes)}
      \cup {[h |-> "d", out |-> out] : out \in OutFns(s, NotKept(s, {1}), DeleteOutcomes)}

\* one line read by interactive_cli_review; when it returns, main prints the
\* summary and returns 0
MainReview ==
    /\ mode = "run" /\ sess.pc = "review"
    /\ \E c \in ReviewCalls(twin[1]) :
          LET s == Apply(twin[1], c)
          IN  /\ twin' = <<s>>
              /\ sess' = [sess EXCEPT
                    !.log = Append(@, "review"),
                    !.pc = IF s.returned THEN "exit" ELSE @,
                    !.status = IF s.returned THEN 0 ELSE @]
    /\ last' = [ev |-> "review"]
    /\ UNCHANGED <<files, groups, mode, nev>>

\* input() raises EOFError at the end of the input, which nothing catches
MainReviewEof ==
    /\ mode = "run" /\ sess.pc = "review"
    /\ sess' = [sess EXCEPT !.pc = "exit", !.status = 1]
    /\ last' = [ev |-> "eof"]
    /\ UNCHANGED <<files, groups, mode, twin, nev>>

NextMain ==
    \/ MainValidate \/ ScanDir \/ HashFile \/ MainExact \/ MainSimilar
    \/ MainReport \/ MainReview \/ MainReviewEof

SpecMain == InitMain /\ [][NextMain]_vars

\* the place of a call in the order of the phases
Rank(call) ==
    CASE call = "scan_files" -> 1
      [] call = "hash_files" -> 2
      [] call \in {"find_exact_duplicates", "find_similar_images"} -> 3
      [] call = "generate_report" -> 4
      [] OTHER -> 5

Calls(call) == {k \in 1..Len(sess.log) : sess.log[k] = call}

\* the calls made so far are in the order of the phases, a phase being over
\* when the next one begins
PhasesInOrder ==
    /\ \A i, j \in 1..Len(sess.log) : i < j => Rank(sess.log[i]) <= Rank(sess.log[j])
    /\ Calls("hash_files") # {} => sess.pending = <<>>
    /\ (\E k \in 1..Len(sess.log) : Rank(sess.log[k]) >= 3) => sess.i > Len(files)

\* main is past find_exact_duplicates and find_similar_images
Grouped ==
    /\ mode = "run" /\ files # <<>>
    /\ sess.pc \in {"generate_report", "review", "exit"}

Returned == mode = "run" /\ sess.pc = "exit"

\* C24 as stated: the phases are in order, every run that gets through
\* grouping has written the report exactly once when it ends, and there is
\* no review before the report is written.
C24_ReportExactlyOnce ==
    /\ PhasesInOrder
    /\ twin # <<>> => sess.reports = 1
    /\ (Returned /\ Grouped) => sess.reports = 1

\* C24: the phases are in order; the report is written at most once, after
\* grouping and only when there is a group; it has been written exactly
\* once when the review begins and when a run with groups returns 0.
C24_ReportOnceIfGroups ==
    /\ PhasesInOrder
    /\ sess.reports <= 1
    /\ Cardinality(Calls("generate_report")) <= 1
    /\ sess.reports = 1 => (Grouped /\ groups # <<>> /\ Calls("generate_report") # {})
    /\ (Grouped /\ groups = <<>>) => sess.reports = 0
    /\ twin # <<>> => sess.reports = 1
    /\ (Returned /\ Grouped /\ groups # <<>> /\ sess.status = 0) => sess.reports = 1

\* a run over three files that wrote its report, went through a live review
\* with a request, and returned
C24_Witness ==
    /\ Returned /\ sess.status = 0
    /\ Len(files) = 3
    /\ sess.reports = 1
    /\ twin # <<>>
    /\ twin[1].w.requests # <<>>
    /\ ~twin[1].dry_run
    /\ Calls("find_exact_duplicates") # {}
    /\ Calls("find_similar_images") # {}

\* C25: main returns non-zero exactly when the root path is missing or no
\* directory, and then nothing was scanned, hashed or written.
C25_ExitStatus ==
    Returned =>
        /\ sess.status \in {0, 1}
        /\ sess.status = 1 <=> sess.root_kind # "dir"
        /\ sess.root_kind # "dir" =>
              /\ files = <<>> /\ sess.log = <<>>
              /\ sess.reports = 0 /\ twin = <<>>

====
